---- MODULE Spec2Model ----
(***************************************************************************)
(* SmartTwin CEP backend: the digital twin (EMA predictor), the anomaly    *)
(* detector (z-score + IsolationForest), the sampling engine, the CEP      *)
(* statistics and the pipeline _process_value that composes them.          *)
(*                                                                         *)
(* Numbers.  The program computes with Python floats (IEEE-754 binary64,   *)
(* round-to-nearest-even).  The model keeps the rounding of every single   *)
(* arithmetic operation but carries Prec significant bits instead of 53    *)
(* and does not bound the exponent (nothing here overflows or underflows). *)
(* A float is <<m, e>>, standing for m * 2^e, with m odd and |m| < 2^Prec, *)
(* or <<0, 0>>.                                                            *)
(***************************************************************************)
EXTENDS Integers, Sequences, FiniteSets, TLC

\* Significant bits of a float of the model (binary64 has 53).
Prec == 13

\* Python's None (of an Optional float or an Optional object).
None == <<>>

(***************************************************************************)
(* Floating point                                                          *)
(***************************************************************************)
Pow2(k) == 2 ^ k

Abs(n) == IF n < 0 THEN -n ELSE n

Sgn(n) == IF n < 0 THEN -1 ELSE IF n = 0 THEN 0 ELSE 1

RECURSIVE BitLen(_)
BitLen(n) == IF n = 0 THEN 0 ELSE 1 + BitLen(n \div 2)

\* m * 2^e (m >= 0) in the form with an odd mantissa.
RECURSIVE Canon(_, _)
Canon(m, e) ==
    IF m = 0 THEN <<0, 0>>
    ELSE IF m % 2 = 0 THEN Canon(m \div 2, e + 1)
    ELSE <<m, e>>

\* The float nearest to sgn * (n + f) * 2^e, ties to even, where n >= 0 is an
\* integer and 0 < f < 1 when sticky, f = 0 otherwise.  With sticky, n holds
\* more than Prec bits.  (The steps are operators of their own, each used in
\* one place, so that a value computed once is handed on as a parameter.)
RoundUp(q, r, half, sticky) ==
    IF r > half \/ (r = half /\ (sticky \/ q % 2 = 1)) THEN q + 1 ELSE q

\* d: the number of bits by which n is longer than Prec.
RoundTo(n, e, sticky, d) ==
    IF d <= 0 THEN Canon(n, e)
    ELSE Canon(RoundUp(n \div Pow2(d), n % Pow2(d), Pow2(d - 1), sticky), e + d)

Signed(sgn, c) == <<sgn * c[1], c[2]>>

FRound(sgn, n, e, sticky) ==
    Signed(sgn, RoundTo(n, e, sticky, BitLen(n) - Prec))

FromInt(n) == FRound(Sgn(n), Abs(n), 0, FALSE)

Zero == <<0, 0>>

FNeg(x) == <<-x[1], x[2]>>

FAbs(x) == <<Abs(x[1]), x[2]>>

\* Position of the leading bit of a non-zero float.
Top(x) == x[2] + BitLen(Abs(x[1]))

\* |a| < |b| for non-zero floats whose leading bits are at ta and tb.
MagLt(a, b, ta, tb, lo) ==
    \/ ta < tb
    \/ ta = tb /\ Abs(a[1]) * Pow2(a[2] - lo) < Abs(b[1]) * Pow2(b[2] - lo)

\* x < y, given their signs
SignedLt(x, y, sx, sy) ==
    IF sx # sy THEN sx < sy
    ELSE IF sx = 0 THEN FALSE
    ELSE MagLt(IF sx = 1 THEN x ELSE y, IF sx = 1 THEN y ELSE x,
               IF sx = 1 THEN Top(x) ELSE Top(y),
               IF sx = 1 THEN Top(y) ELSE Top(x),
               IF x[2] < y[2] THEN x[2] ELSE y[2])

FLt(x, y) == SignedLt(x, y, Sgn(x[1]), Sgn(y[1]))

\* A comparison that lets equality through.
FGtOrEqual(x, y) == ~FLt(x, y)

FGt(x, y) == FLt(y, x)

FGe(x, y) == ~FLt(x, y)

\* hi * 2^s + lo * 2^-t in units of 2^(hi[2] - s), where lo's bits below
\* the unit are cut off: <<sign, magnitude, bits were cut off>>.
AlignedSum(A, lo, t) ==
    IF t = 0 THEN <<Sgn(A + lo[1]), Abs(A + lo[1]), FALSE>>
    ELSE IF t > Prec
    THEN <<Sgn(A), IF Sgn(A) = Sgn(lo[1]) THEN Abs(A) ELSE Abs(A) - 1, TRUE>>
    ELSE IF Abs(lo[1]) % Pow2(t) = 0
    THEN <<Sgn(A), Abs(A + lo[1] \div Pow2(t)), FALSE>>
    ELSE <<Sgn(A),
           IF Sgn(A) = Sgn(lo[1])
           THEN Abs(A) + Abs(lo[1]) \div Pow2(t)
           ELSE Abs(A) - Abs(lo[1]) \div Pow2(t) - 1,
           TRUE>>

RoundSum(r, e) == FRound(r[1], r[2], e, r[3])

\* hi[2] >= lo[2], both non-zero; hi is shifted left by s bits, as far as the
\* exponents differ (d) or the integers of the model allow.
AddShifted(hi, lo, s, d) ==
    RoundSum(AlignedSum(hi[1] * Pow2(s), lo, d - s), hi[2] - s)

Min(a, b) == IF a < b THEN a ELSE b

AddOrdered(hi, lo) ==
    AddShifted(hi, lo, Min(hi[2] - lo[2], 29 - BitLen(Abs(hi[1]))),
               hi[2] - lo[2])

\* x + y, correctly rounded.
FAdd(x, y) ==
    IF x[1] = 0 THEN y
    ELSE IF y[1] = 0 THEN x
    ELSE AddOrdered(IF x[2] >= y[2] THEN x ELSE y,
                    IF x[2] >= y[2] THEN y ELSE x)

FSub(x, y) == FAdd(x, FNeg(y))

\* x * y, correctly rounded.
FMul(x, y) ==
    FRound(Sgn(x[1]) * Sgn(y[1]), Abs(x[1]) * Abs(y[1]), x[2] + y[2], FALSE)

\* num / den with the exponent e
Quotient(sgn, num, den, e) ==
    FRound(sgn, num \div den, e, num % den # 0)

DivShifted(x, y, k) ==
    Quotient(Sgn(x[1]) * Sgn(y[1]), Abs(x[1]) * Pow2(k), Abs(y[1]),
             x[2] - k - y[2])

\* x / y (y non-zero), correctly rounded.
FDiv(x, y) ==
    IF x[1] = 0 THEN Zero ELSE DivShifted(x, y, 30 - BitLen(Abs(x[1])))

\* The largest r with r * r <= n, for 0 <= n < 2^30, found bit by bit.
RECURSIVE ISqrtFrom(_, _, _)
ISqrtFrom(n, r, bit) ==
    IF bit = 0 THEN r
    ELSE ISqrtFrom(n, IF (r + bit) * (r + bit) <= n THEN r + bit ELSE r,
                   bit \div 2)

Root(n, r, e) == FRound(1, r, e, r * r # n)

SqrtOf(n, e) == Root(n, ISqrtFrom(n, 0, 16384), e)

\* k: a shift that leaves the exponent even and the mantissa in 2^28..2^30
SqrtShifted(x, k) == SqrtOf(x[1] * Pow2(k), (x[2] - k) \div 2)

SqrtShift(x, k0) == SqrtShifted(x, IF (x[2] - k0) % 2 = 0 THEN k0 ELSE k0 + 1)

\* sqrt(x) (x >= 0), correctly rounded.
FSqrt(x) ==
    IF x[1] = 0 THEN Zero ELSE SqrtShift(x, 29 - BitLen(x[1]))

One == FromInt(1)

(***************************************************************************)
(* numpy reductions used by anomaly.py and cep.py: ndarray.mean() and      *)
(* ndarray.std(ddof=1) over a float64 array.  add.reduce sums fewer than   *)
(* 8 elements left to right, up to 128 elements in 8 interleaved partial   *)
(* sums, and longer arrays by halving.                                     *)
(***************************************************************************)
RECURSIVE SumFrom(_, _, _)
SumFrom(a, i, res) ==
    IF i > Len(a) THEN res ELSE SumFrom(a, i + 1, FAdd(res, a[i]))

RECURSIVE LaneSum(_, _, _, _)
LaneSum(a, i, full, res) ==
    IF i > full THEN res ELSE LaneSum(a, i + 8, full, FAdd(res, a[i]))

\* ((r1 + r2) + (r3 + r4)) + ((r5 + r6) + (r7 + r8))
RECURSIVE TreeSum(_, _, _)
TreeSum(r, lo, hi) ==
    IF lo = hi THEN r[lo]
    ELSE FAdd(TreeSum(r, lo, lo + (hi - lo) \div 2),
              TreeSum(r, lo + (hi - lo) \div 2 + 1, hi))

Lanes(a, full) == [j \in 1..8 |-> LaneSum(a, j + 8, full, a[j])]

Blocked(a, full) == SumFrom(a, full + 1, TreeSum(Lanes(a, full), 1, 8))

\* Where add.reduce halves an array of n > 128 elements.
SplitAt(n) == n \div 2 - ((n \div 2) % 8)

RECURSIVE np_sum(_)
np_sum(a) ==
    IF Len(a) < 8 THEN SumFrom(a, 1, Zero)
    ELSE IF Len(a) <= 128 THEN Blocked(a, Len(a) - (Len(a) % 8))
    ELSE TreeSum([i \in 1..2 |->
                    np_sum(IF i = 1 THEN SubSeq(a, 1, SplitAt(Len(a)))
                           ELSE SubSeq(a, SplitAt(Len(a)) + 1, Len(a)))],
                 1, 2)

np_mean(a) == FDiv(np_sum(a), FromInt(Len(a)))

SqDev(x) == FMul(x, x)

Variance(a, m) ==
    FDiv(np_sum([i \in 1..Len(a) |-> SqDev(FSub(a[i], m))] \o <<>>),
         FromInt(Len(a) - 1))

\* a.std(ddof=1), for Len(a) > 1
np_std(a) == FSqrt(Variance(a, np_mean(a)))

RECURSIVE np_max(_)
np_max(a) ==
    IF Len(a) = 1 THEN a[1]
    ELSE LET m == np_max(Tail(a)) IN IF FLt(m, a[1]) THEN a[1] ELSE m

RECURSIVE np_min(_)
np_min(a) ==
    IF Len(a) = 1 THEN a[1]
    ELSE LET m == np_min(Tail(a)) IN IF FLt(a[1], m) THEN a[1] ELSE m

(***************************************************************************)
(* models/digital_twin.py                                                  *)
(***************************************************************************)
\* EmaConfig(alpha=0.3): the literal 0.3 is the float nearest to 3/10.
alpha == FDiv(FromInt(3), FromInt(10))

EmaConfig(a) == [alpha |-> a]

\* DigitalTwinModel(config)
NewTwin(config) == [config |-> config, last_ema |-> None, history |-> <<>>]

\* DigitalTwinModel(EmaConfig(alpha=0.3))
DigitalTwinModel == NewTwin(EmaConfig(alpha))

reset(tw) == [tw EXCEPT !.last_ema = None, !.history = <<>>]

\* A predictor that weighs the value and the estimate the other way round.
update_swapped(tw, value) ==
    [tw EXCEPT
       !.history  = Append(@, value),
       !.last_ema = IF @ = None
                    THEN value
                    ELSE FAdd(FMul(tw.config.alpha, @),
                              FMul(FSub(One, tw.config.alpha), value))]

update(tw, value) ==
    [tw EXCEPT
       !.history  = Append(@, value),
       !.last_ema = IF @ = None
                    THEN value
                    ELSE FAdd(FMul(tw.config.alpha, value),
                              FMul(FSub(One, tw.config.alpha), @))]

predict(tw) == tw.last_ema

get_residual(tw, value) ==
    IF tw.last_ema = None THEN Zero ELSE FSub(value, tw.last_ema)

RECURSIVE UpdateAll(_, _)
UpdateAll(tw, series) ==
    IF series = <<>> THEN tw
    ELSE UpdateAll(update(tw, series[1]), Tail(series))

fit_from_series(tw, series) == UpdateAll(reset(tw), series)

(***************************************************************************)
(* models/anomaly.py                                                       *)
(***************************************************************************)
\* A detector with the threshold at 2.
zscore_threshold_two == FromInt(2)

zscore_threshold == FromInt(3)

RetrainEvery == 50

MinFit == 10

\* A detector: _fitted, _model and _residuals_history.  _model is None or an
\* IsolationForest, which is trained (on X) once its fit() has returned.
AnomalyDetector == [fitted |-> FALSE, model |-> None, history |-> <<>>]

\* What IsolationForest.decision_function may return for a point: the forest
\* is sklearn's, its value is not computed here.  predict() is -1 exactly
\* when decision_function is negative.
IForestScores == {<<-1, -1>>, Zero, <<1, -1>>}

\* fit(residuals).  lib_ok: whether IsolationForest.fit returns (TRUE) or
\* raises (FALSE).  The result holds the detector afterwards, whether the
\* call raised, and the array handed to IsolationForest.fit (None if none).
fit(det, residuals, lib_ok) ==
    IF Len(residuals) < MinFit
    THEN [det |-> [det EXCEPT !.fitted = FALSE], raised |-> FALSE, X |-> None]
    ELSE IF lib_ok
    THEN [det |-> [fitted  |-> TRUE,
                   model   |-> [trained |-> TRUE, X |-> residuals],
                   history |-> residuals],
          raised |-> FALSE, X |-> residuals]
    ELSE [det |-> [det EXCEPT !.model = [trained |-> FALSE, X |-> <<>>]],
          raised |-> TRUE, X |-> residuals]

\* A detector that looks at the length of the history before the append.
partial_update_stale_length(det, residual, lib_ok) ==
    LET d1 == [det EXCEPT !.history = Append(@, residual)] IN
    IF Len(det.history) % RetrainEvery = 0
    THEN fit(d1, d1.history, lib_ok)
    ELSE [det |-> d1, raised |-> FALSE, X |-> None]

partial_update(det, residual, lib_ok) ==
    LET d1 == [det EXCEPT !.history = Append(@, residual)] IN
    IF Len(d1.history) % RetrainEvery = 0
    THEN fit(d1, d1.history, lib_ok)
    ELSE [det |-> d1, raised |-> FALSE, X |-> None]

\* score_point(residual).  lib_score: the value decision_function returns if
\* it is called.  raised: decision_function was called on a forest whose
\* fit() never returned (sklearn's NotFittedError).
score_result_above_threshold(det, res, z, lib_score) ==
    IF det.fitted /\ det.model # None
    THEN IF det.model.trained
         THEN [raised          |-> FALSE,
               residual        |-> res,
               zscore_residual |-> z,
               iforest_score   |-> lib_score,
               is_anomaly      |-> FLt(lib_score, Zero)
                                   \/ FGt(FAbs(z), zscore_threshold)]
         ELSE [raised |-> TRUE]
    ELSE [raised          |-> FALSE,
          residual        |-> res,
          zscore_residual |-> z,
          iforest_score   |-> Zero,
          is_anomaly      |-> FGt(FAbs(z), zscore_threshold)]

score_result(det, res, z, lib_score) ==
    IF det.fitted /\ det.model # None
    THEN IF det.model.trained
         THEN [raised          |-> FALSE,
               residual        |-> res,
               zscore_residual |-> z,
               iforest_score   |-> lib_score,
               is_anomaly      |-> FLt(lib_score, Zero)
                                   \/ FGe(FAbs(z), zscore_threshold)]
         ELSE [raised |-> TRUE]
    ELSE [raised          |-> FALSE,
          residual        |-> res,
          zscore_residual |-> z,
          iforest_score   |-> Zero,
          is_anomaly      |-> FGe(FAbs(z), zscore_threshold)]

zscore(res, mean, std) ==
    IF FGt(std, Zero) THEN FDiv(FSub(res, mean), std) ELSE Zero

hist_std(hist) == IF Len(hist) > 1 THEN np_std(hist) ELSE Zero

hist_zscore(res, hist) == zscore(res, np_mean(hist), hist_std(hist))

\* A detector that takes the statistics over the history as it is, without
\* the candidate appended once more.
score_point_history_only(det, residual, lib_score) ==
    score_result(det, residual, hist_zscore(residual, det.history), lib_score)

score_point(det, residual, lib_score) ==
    score_result(det, residual,
                 hist_zscore(residual, Append(det.history, residual)),
                 lib_score)

(***************************************************************************)
(* models/sampling.py                                                      *)
(***************************************************************************)
SamplingDecision(level, reason) == [level |-> level, reason |-> reason]

\* An engine that asks for more than 2 standard deviations.
decide_above_two(is_anomaly, zscore_residual) ==
    IF is_anomaly
    THEN SamplingDecision("critico",
                          "Anomalia detectada (IsolationForest ou |z| alto).")
    ELSE IF zscore_residual = None
    THEN SamplingDecision("normal", "Sem estatistica suficiente.")
    ELSE IF FGt(FAbs(zscore_residual), FromInt(2))
    THEN SamplingDecision("atencao",
                          "Residuo moderadamente distante da media (|z| >= 2).")
    ELSE SamplingDecision("normal", "Residuo dentro de faixa esperada.")

decide(is_anomaly, zscore_residual) ==
    IF is_anomaly
    THEN SamplingDecision("critico",
                          "Anomalia detectada (IsolationForest ou |z| alto).")
    ELSE IF zscore_residual = None
    THEN SamplingDecision("normal", "Sem estatistica suficiente.")
    ELSE IF FGe(FAbs(zscore_residual), FromInt(2))
    THEN SamplingDecision("atencao",
                          "Residuo moderadamente distante da media (|z| >= 2).")
    ELSE SamplingDecision("normal", "Residuo dentro de faixa esperada.")

(***************************************************************************)
(* models/cep.py                                                           *)
(***************************************************************************)
CepStats(mean, std, r, cp, cpk, lsl, usl, n) ==
    [mean |-> mean, std |-> std, r |-> r, cp |-> cp, cpk |-> cpk,
     lsl |-> lsl, usl |-> usl, n |-> n]

\* The larger of the two, where the code takes the smaller.
max_of(a, b) == IF FLt(a, b) THEN b ELSE a

min(a, b) == IF FLt(b, a) THEN b ELSE a

\* cep.py 31-38: cp and cpk of a sample with the given mean and std.
capability(mean, std, lsl, usl) ==
    IF std = Zero
    THEN [cp |-> None, cpk |-> None]
    ELSE [cp  |-> FDiv(FSub(usl, lsl), FMul(FromInt(6), std)),
          cpk |-> min(FDiv(FSub(usl, mean), FMul(FromInt(3), std)),
                      FDiv(FSub(mean, lsl), FMul(FromInt(3), std)))]

cep_stats(mean, std, r, cap, lsl, usl, n) ==
    CepStats(mean, std, r, cap.cp, cap.cpk, lsl, usl, n)

sample_stats(x, mean, std, lsl, usl) ==
    cep_stats(mean, std,
              IF Len(x) > 1 THEN FSub(np_max(x), np_min(x)) ELSE Zero,
              capability(mean, std, lsl, usl), lsl, usl, Len(x))

compute_cp_cpk(values, lsl, usl) ==
    IF Len(values) = 0
    THEN CepStats(Zero, Zero, Zero, None, None, lsl, usl, 0)
    ELSE sample_stats(values, np_mean(values), hist_std(values), lsl, usl)

\* date.isoformat(): YYYY-MM-DD, as the sequence of its character codes.
Digit(n) == 48 + (n % 10)

isoformat(d) ==
    <<Digit(d[1] \div 1000), Digit(d[1] \div 100), Digit(d[1] \div 10),
      Digit(d[1]), 45, Digit(d[2] \div 10), Digit(d[2]), 45,
      Digit(d[3] \div 10), Digit(d[3])>>

\* a < b for two str, as Python compares them: code by code.
RECURSIVE StrLt(_, _)
StrLt(a, b) ==
    IF Len(b) = 0 THEN FALSE
    ELSE IF Len(a) = 0 THEN TRUE
    ELSE IF a[1] # b[1] THEN a[1] < b[1]
    ELSE StrLt(Tail(a), Tail(b))

\* grouped[day].append(val) on a defaultdict(list), kept in insertion order
\* as a sequence of items [day, vals].
AppendTo(grouped, day, val) ==
    IF \E i \in 1..Len(grouped) : grouped[i].day = day
    THEN [i \in 1..Len(grouped) |->
            IF grouped[i].day = day
            THEN [grouped[i] EXCEPT !.vals = Append(@, val)]
            ELSE grouped[i]]
    ELSE Append(grouped, [day |-> day, vals |-> <<val>>])

\* cep.py 45-56, from the i-th measurement on.  A timestamp is None, a
\* datetime ([type |-> "datetime", date, hour]) or an object of another type.
RECURSIVE GroupFrom(_, _, _)
GroupFrom(measurements, i, grouped) ==
    IF i > Len(measurements) THEN grouped
    ELSE IF measurements[i].timestamp = None \/ measurements[i].value_real = None
    THEN GroupFrom(measurements, i + 1, grouped)
    ELSE IF measurements[i].timestamp.type # "datetime"
    THEN GroupFrom(measurements, i + 1, grouped)
    ELSE GroupFrom(measurements, i + 1,
                   AppendTo(grouped, isoformat(measurements[i].timestamp.date),
                            measurements[i].value_real))

group_by_day(measurements) == GroupFrom(measurements, 1, <<>>)

\* The items in the order in which the dict yields them.
items_as_inserted(items) == items

\* item put into a list of items sorted by day, after those not above it
Insert(item, list) ==
    LET k == Cardinality({j \in 1..Len(list) : ~StrLt(item.day, list[j].day)})
    IN  SubSeq(list, 1, k) \o <<item>> \o SubSeq(list, k + 1, Len(list))

\* sorted(grouped.items(), key=lambda kv: kv[0])
RECURSIVE sorted_items(_)
sorted_items(items) ==
    IF Len(items) = 0 THEN <<>>
    ELSE Insert(items[Len(items)], sorted_items(SubSeq(items, 1, Len(items) - 1)))

\* cep.py 70-82
daily_row(day, stats) ==
    [day |-> day, n |-> stats.n, mean |-> stats.mean, std |-> stats.std,
     r |-> stats.r, cp |-> stats.cp, cpk |-> stats.cpk,
     lsl |-> stats.lsl, usl |-> stats.usl]

daily_rows(items, lsl, usl) ==
    [i \in 1..Len(items) |->
        daily_row(items[i].day, compute_cp_cpk(items[i].vals, lsl, usl))]

compute_daily_cep(measurements, lsl, usl) ==
    daily_rows(sorted_items(group_by_day(measurements)), lsl, usl)

\* len(values) < 8 (cep.py 92) and the run of rule 4 (cep.py 115)
MinValues == 8

RunLength == 8

\* A limit of two standard deviations.
two_sigma(std) == FMul(FromInt(2), std)

\* 3 * std
three_sigma(std) == FMul(FromInt(3), std)

\* cep.py 103-105: the indices (from 0) of rule 1, in the order of the loop
RECURSIVE Rule1From(_, _, _, _)
Rule1From(x, i, mean, limit) ==
    IF i >= Len(x) THEN <<>>
    ELSE (IF FGt(FAbs(FSub(x[i + 1], mean)), limit) THEN <<i>> ELSE <<>>)
         \o Rule1From(x, i + 1, mean, limit)

\* np.sign(x - mean), as a sequence of -1, 0, 1
sign(x, mean) == [i \in 1..Len(x) |-> Sgn(FSub(x[i], mean)[1])]

\* Only the index that completes the run.
last_of_range(a, b) == <<b - 1>>

\* list(range(a, b))
range(a, b) == [k \in 1..(b - a) |-> a + k - 1]

\* cep.py 115-116, with streak_start settled for this i
Extend(idx, streak_start, i) ==
    IF i - streak_start + 1 >= RunLength
    THEN idx \o range(streak_start, i + 1)
    ELSE idx

\* cep.py 109-116: the loop from i on; side[i] of the code is side[i + 1]
RECURSIVE Rule4From(_, _, _, _)
Rule4From(side, i, streak_start, idx) ==
    IF i >= Len(side) THEN idx
    ELSE IF side[i + 1] = 0 THEN Rule4From(side, i + 1, i + 1, idx)
    ELSE IF side[i + 1] # side[i]
    THEN Rule4From(side, i + 1, i, Extend(idx, i, i))
    ELSE Rule4From(side, i + 1, streak_start, Extend(idx, streak_start, i))

\* The elements of the set s of integers in ascending order.
RECURSIVE Ascending(_)
Ascending(s) ==
    IF s = {} THEN <<>>
    ELSE <<CHOOSE m \in s : \A k \in s : m <= k>>
         \o Ascending(s \ {CHOOSE m \in s : \A k \in s : m <= k})

\* sorted(set(idx))
sorted_set(idx) == Ascending({idx[k] : k \in 1..Len(idx)})

\* cep.py 99-121, given the mean and the std of x
run_rules(x, mean, std) ==
    IF FGt(std, Zero)
    THEN [rule1 |-> sorted_set(Rule1From(x, 0, mean, three_sigma(std))),
          rule4 |-> sorted_set(Rule4From(sign(x, mean), 1, 0, <<>>))]
    ELSE [rule1 |-> <<>>, rule4 |-> <<>>]

\* Limits taken from the first MinValues values, not from the whole input.
detect_run_rules_baseline(values) ==
    IF Len(values) < MinValues
    THEN [rule1 |-> <<>>, rule4 |-> <<>>]
    ELSE run_rules(values, np_mean(SubSeq(values, 1, MinValues)),
                   hist_std(SubSeq(values, 1, MinValues)))

detect_run_rules(values) ==
    IF Len(values) < MinValues
    THEN [rule1 |-> <<>>, rule4 |-> <<>>]
    ELSE run_rules(values, np_mean(values), hist_std(values))

\* LSL and USL of main.py
LSL == FromInt(1025)

USL == FromInt(1032)

(***************************************************************************)
(* api/main.py: the global state and the pipeline                          *)
(***************************************************************************)
\* Worker threads that run simulate_step (a sync endpoint) concurrently.
NThreads == 2

Threads == 1..NThreads

\* upload_file is a coroutine: it runs on the event loop, while the worker
\* threads run the simulate-step calls.
Loop == 0

Callers == Threads \cup {Loop}

\* Requests accepted in a run in which they may overlap, and in a run in
\* which they are handled one at a time.
MaxOverlapping == 3

MaxRequests == 9

\* How often the value may change along the stream of requests.
MaxChanges == 1

\* Measured values a request may carry.
Values == {FromInt(1028), FromInt(1040), FromInt(3)}

VARIABLES
    twins,             \* every DigitalTwinModel object created so far
    detectors,         \* every AnomalyDetector object created so far
    digital_twin,      \* the global digital_twin: an index into twins
    anomaly_detector,  \* the global anomaly_detector: an index into detectors
    pc,                \* per thread: where it is in _process_value
    loc,               \* per thread: the locals of its _process_value call
    stream,            \* the values of the requests accepted, in order
    measurements,      \* the Measurement table, in commit order
    seen,              \* per committed measurement: the predictor object and
                       \* the number of updates it had when predict() was read
    alerts,            \* the Alert table
    errors,            \* requests that ended with an exception (HTTP 500)
    upload,            \* the batch import: None before it, then the rows
                       \* read so far and the size of the table at its start
    used,              \* per committed measurement: the objects the globals
                       \* named at predict, partial_update, score_point and
                       \* update
    det,               \* a detector driven directly, call by call
    last,              \* the last direct call of a unit, and what it returned
    fits,              \* the arrays det has handed to IsolationForest.fit
    twin               \* a predictor driven directly, call by call

app == <<twins, detectors, digital_twin, anomaly_detector, pc, loc, stream,
         measurements, seen, alerts, errors, upload, used>>

unit == <<det, last, fits, twin>>

vars == <<app, unit>>

NoLocals ==
    [value |-> None, pred_before |-> None, residual |-> None, scores |-> None,
     decision |-> None, seen |-> None, source |-> None, used |-> None]

Init ==
    /\ twins = <<DigitalTwinModel>>
    /\ detectors = <<AnomalyDetector>>
    /\ digital_twin = 1
    /\ anomaly_detector = 1
    /\ pc = [t \in Callers |-> "idle"]
    /\ loc = [t \in Callers |-> NoLocals]
    /\ stream = <<>>
    /\ measurements = <<>>
    /\ seen = <<>>
    /\ alerts = <<>>
    /\ errors = 0
    /\ upload = None
    /\ used = <<>>
    /\ det = AnomalyDetector
    /\ last = [op |-> "__init__"]
    /\ fits = <<>>
    /\ twin = DigitalTwinModel

RECURSIVE Changes(_)
Changes(s) ==
    IF Len(s) < 2 THEN 0
    ELSE (IF s[1] # s[2] THEN 1 ELSE 0) + Changes(Tail(s))

AllIdle == \A t \in Threads : pc[t] = "idle"

\* POST /data/simulate-step arrives and a worker thread enters _process_value.
simulate_step(t, v, max) ==
    /\ pc[t] = "idle"
    /\ pc[Loop] = "idle"
    /\ Len(stream) < max
    /\ Changes(Append(stream, v)) <= MaxChanges
    /\ stream' = Append(stream, v)
    /\ pc' = [pc EXCEPT ![t] = "predict"]
    /\ loc' = [loc EXCEPT ![t] = [NoLocals EXCEPT !.value = v,
                                                   !.source = "simulator"]]
    /\ UNCHANGED <<twins, detectors, digital_twin, anomaly_detector,
                   measurements, seen, alerts, errors, upload, used>>
    /\ UNCHANGED unit

\* A pipeline that reads the prediction after the update of the predictor.
PredAfterUpdate(tw, value) == predict(update(tw, value))

\* A pipeline that takes 0 as the prediction of a predictor without estimate.
PredBeforeOrZero(tw, value) ==
    IF predict(tw) = None THEN Zero ELSE predict(tw)

\* pred_before = digital_twin.predict(), or the value itself if there is none.
PredBefore(tw, value) ==
    IF predict(tw) = None THEN value ELSE predict(tw)

\* main.py 95-99
Predict(t) ==
    /\ pc[t] = "predict"
    /\ LET tw   == twins[digital_twin]
           pred == PredBefore(tw, loc[t].value)
       IN  loc' = [loc EXCEPT ![t].pred_before = pred,
                              ![t].residual = FSub(loc[t].value, pred),
                              ![t].seen = <<digital_twin, Len(tw.history)>>,
                              ![t].used = [predict |-> digital_twin,
                                           observe |-> 0,
                                           score   |-> 0,
                                           update  |-> 0]]
    /\ pc' = [pc EXCEPT ![t] = "observe"]
    /\ UNCHANGED <<twins, detectors, digital_twin, anomaly_detector, stream,
                   measurements, seen, alerts, errors, upload, used>>
    /\ UNCHANGED unit

\* The call ends with an exception: the request is answered with an error.
Raise(t) ==
    /\ pc' = [pc EXCEPT ![t] = "idle"]
    /\ loc' = [loc EXCEPT ![t] = NoLocals]
    /\ errors' = errors + 1

\* main.py 102
Observe(t) ==
    /\ pc[t] = "observe"
    /\ \E lib_ok \in BOOLEAN :
         LET r == partial_update(detectors[anomaly_detector], loc[t].residual,
                                 lib_ok)
         IN  /\ detectors' = [detectors EXCEPT ![anomaly_detector] = r.det]
             /\ IF r.raised
                THEN Raise(t)
                ELSE /\ pc' = [pc EXCEPT ![t] = "score"]
                     /\ loc' = [loc EXCEPT
                                  ![t].used.observe = anomaly_detector]
                     /\ UNCHANGED errors
    /\ UNCHANGED <<twins, digital_twin, anomaly_detector, stream,
                   measurements, seen, alerts, upload, used>>
    /\ UNCHANGED unit

\* What decision_function may return for this detector, if it is called.
LibScores(d) == IF d.fitted /\ d.model # None THEN IForestScores ELSE {Zero}

\* main.py 103
Score(t) ==
    /\ pc[t] = "score"
    /\ \E lib_score \in LibScores(detectors[anomaly_detector]) :
         LET r == score_point(detectors[anomaly_detector], loc[t].residual,
                              lib_score)
         IN  IF r.raised
             THEN Raise(t)
             ELSE /\ loc' = [loc EXCEPT ![t].scores = r,
                                         ![t].used.score = anomaly_detector]
                  /\ pc' = [pc EXCEPT ![t] = "decide"]
                  /\ UNCHANGED errors
    /\ UNCHANGED <<twins, detectors, digital_twin, anomaly_detector, stream,
                   measurements, seen, alerts, upload, used>>
    /\ UNCHANGED unit

\* main.py 106-109
Decide(t) ==
    /\ pc[t] = "decide"
    /\ loc' = [loc EXCEPT ![t].decision =
                 decide(loc[t].scores.is_anomaly, loc[t].scores.zscore_residual)]
    /\ pc' = [pc EXCEPT ![t] = "update"]
    /\ UNCHANGED <<twins, detectors, digital_twin, anomaly_detector, stream,
                   measurements, seen, alerts, errors, upload, used>>
    /\ UNCHANGED unit

\* main.py 112
Update(t) ==
    /\ pc[t] = "update"
    /\ twins' = [twins EXCEPT ![digital_twin] = update(@, loc[t].value)]
    /\ loc' = [loc EXCEPT ![t].used.update = digital_twin]
    /\ pc' = [pc EXCEPT ![t] = "save"]
    /\ UNCHANGED <<detectors, digital_twin, anomaly_detector, stream,
                   measurements, seen, alerts, errors, upload, used>>
    /\ UNCHANGED unit

\* A row that is stored without the flag of the detector.
MeasurementWithoutFlag(l) ==
    [value_real      |-> l.value,
     value_pred      |-> l.pred_before,
     residual        |-> l.scores.residual,
     zscore_residual |-> l.scores.zscore_residual,
     iforest_score   |-> l.scores.iforest_score,
     is_anomaly      |-> FALSE,
     sampling_level  |-> l.decision.level,
     source          |-> l.source]

\* The Measurement row built at main.py 117-135.
Measurement(l) ==
    [value_real      |-> l.value,
     value_pred      |-> l.pred_before,
     residual        |-> l.scores.residual,
     zscore_residual |-> l.scores.zscore_residual,
     iforest_score   |-> l.scores.iforest_score,
     is_anomaly      |-> l.scores.is_anomaly,
     sampling_level  |-> l.decision.level,
     source          |-> l.source]

\* main.py 117-136: datastore.add_measurement commits the row.
Save(t) ==
    /\ pc[t] = "save"
    /\ measurements' = Append(measurements, Measurement(loc[t]))
    /\ seen' = Append(seen, loc[t].seen)
    /\ used' = Append(used, loc[t].used)
    /\ pc' = [pc EXCEPT ![t] = "alert"]
    /\ UNCHANGED <<twins, detectors, digital_twin, anomaly_detector, loc,
                   stream, alerts, errors, upload>>
    /\ UNCHANGED unit

\* main.py 139-166: the alert for an anomaly, then the return: to the
\* response of simulate-step, or to the row loop of upload_file.
Alert(t) ==
    /\ pc[t] = "alert"
    /\ alerts' = IF loc[t].scores.is_anomaly
                 THEN Append(alerts, [level |-> "warning",
                                      value |-> loc[t].value])
                 ELSE alerts
    /\ pc' = [pc EXCEPT ![t] = IF t = Loop THEN "rows" ELSE "idle"]
    /\ loc' = [loc EXCEPT ![t] = NoLocals]
    /\ UNCHANGED <<twins, detectors, digital_twin, anomaly_detector, stream,
                   measurements, seen, errors, upload, used>>
    /\ UNCHANGED unit

Step(t) ==
    \/ Predict(t)
    \/ Observe(t)
    \/ Score(t)
    \/ Decide(t)
    \/ Update(t)
    \/ Save(t)
    \/ Alert(t)

\* Requests are handled by the thread pool as they come: they may overlap.
Next ==
    \E t \in Threads :
        \/ \E v \in Values : simulate_step(t, v, MaxOverlapping)
        \/ Step(t)

Spec == Init /\ [][Next]_vars

\* One request at a time: the next one is sent after the response.
SeqNext ==
    \E t \in Threads :
        \/ \E v \in Values : AllIdle /\ simulate_step(t, v, MaxRequests)
        \/ Step(t)

SeqSpec == Init /\ [][SeqNext]_vars

\* ------------------------------------------------------------------------
\* POST /data/upload-file (main.py 180-253)
\* ------------------------------------------------------------------------

\* Rows of the longest file imported.
MaxBatch == 50

\* Simulate-step requests answered in a run that imports a file.
MaxSimulated == 1

\* The rows of a file after the first MaxVariedRows repeat the row before.
MaxVariedRows == 1

RowAllowed(rows, v) ==
    IF Len(rows) < MaxVariedRows THEN TRUE ELSE v = rows[Len(rows)]

\* An import that keeps the predictor it finds in the global.
KeepTwin(current) == current

\* main.py 213: the object bound to the global digital_twin.
ConstructTwin(current) == NewTwin(EmaConfig(alpha))

\* main.py 212-213: the file is read and parsed; the global digital_twin is
\* rebound to a new predictor.
upload_file ==
    /\ pc[Loop] = "idle"
    /\ upload = None
    /\ upload' = [rows |-> <<>>, from |-> Len(measurements)]
    /\ twins' = Append(twins, ConstructTwin(twins[digital_twin]))
    /\ digital_twin' = Len(twins) + 1
    /\ pc' = [pc EXCEPT ![Loop] = "reset"]
    /\ UNCHANGED <<detectors, anomaly_detector, loc, stream, measurements,
                   seen, alerts, errors, used>>
    /\ UNCHANGED unit

\* main.py 214: the global anomaly_detector is rebound to a new detector.
ResetDetector ==
    /\ pc[Loop] = "reset"
    /\ detectors' = Append(detectors, AnomalyDetector)
    /\ anomaly_detector' = Len(detectors) + 1
    /\ pc' = [pc EXCEPT ![Loop] = "rows"]
    /\ UNCHANGED <<twins, digital_twin, loc, stream, measurements, seen,
                   alerts, errors, upload, used>>
    /\ UNCHANGED unit

\* main.py 217-248: the next row of the file enters _process_value.
NextRow(v, max) ==
    /\ pc[Loop] = "rows"
    /\ Len(upload.rows) < max
    /\ RowAllowed(upload.rows, v)
    /\ upload' = [upload EXCEPT !.rows = Append(@, v)]
    /\ loc' = [loc EXCEPT ![Loop] = [NoLocals EXCEPT !.value = v,
                                                      !.source = "upload"]]
    /\ pc' = [pc EXCEPT ![Loop] = "predict"]
    /\ UNCHANGED <<twins, detectors, digital_twin, anomaly_detector, stream,
                   measurements, seen, alerts, errors, used>>
    /\ UNCHANGED unit

\* main.py 251-253: the file is exhausted and the request is answered.
EndUpload ==
    /\ pc[Loop] = "rows"
    /\ pc' = [pc EXCEPT ![Loop] = "idle"]
    /\ UNCHANGED <<twins, detectors, digital_twin, anomaly_detector, loc,
                   stream, measurements, seen, alerts, errors, upload, used>>
    /\ UNCHANGED unit

NoCaller == \A t \in Callers : pc[t] = "idle"

\* A file is imported while no other request is in progress: the
\* simulate-step requests are answered before the import starts.
UploadNext ==
    \/ /\ NoCaller
       /\ upload = None
       /\ \E t \in Threads, v \in Values : simulate_step(t, v, MaxSimulated)
    \/ NoCaller /\ upload_file
    \/ ResetDetector
    \/ \E v \in Values : NextRow(v, MaxBatch)
    \/ EndUpload
    \/ \E t \in Callers : Step(t)

UploadSpec == Init /\ [][UploadNext]_vars

\* Simulate-step requests and rows of the file in a run in which the import
\* overlaps simulate-step calls.
MaxConcurrent == 1

MaxMixRows == 2

\* A file is imported while simulate-step calls are in progress on worker
\* threads: the event loop runs upload_file, the threads go on with theirs.
MixNext ==
    \/ \E t \in Threads, v \in Values : simulate_step(t, v, MaxConcurrent)
    \/ upload_file
    \/ ResetDetector
    \/ \E v \in Values : NextRow(v, MaxMixRows)
    \/ EndUpload
    \/ \E t \in Callers : Step(t)

MixSpec == Init /\ [][MixNext]_vars

(***************************************************************************)
(* A detector driven directly: partial_update and score_point, call by     *)
(* call, from a fresh AnomalyDetector                                      *)
(***************************************************************************)
\* Residuals observed at most.
MaxHistory == 100

\* Residuals a call may carry; the first MaxVaried residuals observed are
\* any of them, the later ones are 0.
DetResiduals == {Zero, One, FNeg(One)}

MaxVaried == 1

call_partial_update(r, lib_ok) ==
    /\ Len(det.history) < MaxHistory
    /\ Len(det.history) < MaxVaried \/ r = Zero
    /\ LET ret == partial_update(det, r, lib_ok)
       IN  /\ det' = ret.det
           /\ fits' = IF ret.X = None THEN fits ELSE Append(fits, ret.X)
           /\ last' = [op |-> "partial_update", residual |-> r,
                       raised |-> ret.raised]
    /\ UNCHANGED <<app, twin>>

\* score_point leaves the detector as it is: a score that follows a score
\* returns what it would have returned in its place, and is left out.
call_score_point(r, lib_score) ==
    /\ last.op # "score_point"
    /\ last' = [op |-> "score_point", residual |-> r,
                fitted |-> det.fitted,
                ret |-> score_point(det, r, lib_score)]
    /\ UNCHANGED <<app, det, fits, twin>>

DetNext ==
    \/ \E r \in DetResiduals, lib_ok \in BOOLEAN :
          call_partial_update(r, lib_ok)
    \/ \E r \in DetResiduals, lib_score \in LibScores(det) :
          call_score_point(r, lib_score)

DetSpec == Init /\ [][DetNext]_vars

\* The lists a direct call of fit is given: too short to fit, and just long
\* enough.
FitInputs == {[i \in 1..n |-> Zero] : n \in {MinFit - 1, MinFit}}

\* Direct calls of fit are made while fewer than MaxFits arrays were fitted.
MaxFits == 1

call_fit(residuals, lib_ok) ==
    /\ Len(fits) < MaxFits
    /\ LET ret == fit(det, residuals, lib_ok)
       IN  /\ det' = ret.det
           /\ fits' = IF ret.X = None THEN fits ELSE Append(fits, ret.X)
           /\ last' = [op |-> "fit", raised |-> ret.raised]
    /\ UNCHANGED <<app, twin>>

\* partial_update, score_point and fit, in any order
FitNext ==
    \/ \E r \in DetResiduals, lib_ok \in BOOLEAN :
          call_partial_update(r, lib_ok)
    \/ \E r \in DetResiduals, lib_score \in LibScores(det) :
          call_score_point(r, lib_score)
    \/ \E residuals \in FitInputs, lib_ok \in BOOLEAN :
          call_fit(residuals, lib_ok)

FitSpec == Init /\ [][FitNext]_vars

\* Residuals a detector is fed as _process_value feeds it.
MaxPairs == 20

\* How many of them differ from 0.
MaxOutliers == 1

Outliers(hist) == Cardinality({i \in 1..Len(hist) : hist[i] # Zero})

\* main.py 102-103: partial_update(residual), then score_point(residual).
call_observe_and_score(r, lib_ok, lib_score) ==
    /\ Len(det.history) < MaxPairs
    /\ IF Outliers(det.history) < MaxOutliers THEN TRUE ELSE r = Zero
    /\ LET ret == partial_update(det, r, lib_ok)
       IN  /\ ~ret.raised
           /\ det' = ret.det
           /\ fits' = IF ret.X = None THEN fits ELSE Append(fits, ret.X)
           /\ last' = [op |-> "score_point", residual |-> r,
                       fitted |-> ret.det.fitted,
                       ret |-> score_point(ret.det, r, lib_score)]
    /\ UNCHANGED <<app, twin>>

PairNext ==
    \E r \in DetResiduals, lib_ok \in BOOLEAN, lib_score \in LibScores(det) :
        call_observe_and_score(r, lib_ok, lib_score)

PairSpec == Init /\ [][PairNext]_vars

IsPrefix(a, b) == Len(a) <= Len(b) /\ SubSeq(b, 1, Len(a)) = a

\* C18: whatever partial_update, score_point and fit calls are made on a
\* detector, its residual history never gets shorter, and the residuals
\* recorded are never removed or altered.
C18_HistoryOnlyGrows == [][IsPrefix(det.history, det'.history)]_vars

Scored == last.op = "score_point"

Returned == Scored /\ ~last.ret.raised

\* C5: feeding residuals through partial_update only, IsolationForest.fit
\* runs in a call exactly when the history is 50, 100, ... long after the
\* append, each time on the entire history of that moment; with fewer than
\* 10 residuals observed the detector is unfitted and every score has
\* iforest_score = 0.
C5_RetrainEveryFifty ==
    /\ Len(fits) = Len(det.history) \div 50
    /\ \A j \in 1..Len(fits) : fits[j] = SubSeq(det.history, 1, 50 * j)
    /\ Len(det.history) < 10 =>
          /\ ~det.fitted
          /\ Scored => Returned /\ last.ret.iforest_score = Zero

C5_Witness ==
    /\ Len(fits) = 2
    /\ Len(det.history) = 100
    /\ det.history[1] # Zero
    /\ det.fitted

\* The last IsolationForest.fit of the detector raised.
FitFailed == det.model # None /\ ~det.model.trained

\* C6: a failing IsolationForest.fit raises nothing to the caller of
\* partial_update and leaves the detector unfitted, and every later
\* score_point returns, with iforest_score = 0 and is_anomaly decided by
\* the z-score alone.
C6_FitFailureIsContained ==
    /\ last.op = "partial_update" => ~last.raised
    /\ FitFailed => ~det.fitted
    /\ FitFailed /\ Scored =>
          /\ Returned
          /\ last.ret.iforest_score = Zero
          /\ last.ret.is_anomaly <=>
                FGe(FAbs(last.ret.zscore_residual), FromInt(3))

MaxTenths == 30

DecideZ ==
    {None} \cup {FDiv(FromInt(k), FromInt(10)) : k \in (-MaxTenths)..MaxTenths}

call_decide(is_anomaly, z) ==
    /\ last' = [op |-> "decide", is_anomaly |-> is_anomaly, zscore |-> z,
                ret |-> decide(is_anomaly, z)]
    /\ UNCHANGED <<app, det, fits, twin>>

DecideNext == \E is_anomaly \in BOOLEAN, z \in DecideZ : call_decide(is_anomaly, z)

DecideSpec == Init /\ [][DecideNext]_vars

\* C9: decide returns critical whenever is_anomaly is true, whatever the
\* zscore, undefined included; otherwise normal for "insufficient statistics"
\* when the zscore is undefined; otherwise attention when |zscore| >= 2,
\* the boundary included; otherwise normal.
C9_DecisionTable ==
    last.op = "decide" =>
        /\ last.is_anomaly => last.ret.level = "critico"
        /\ ~last.is_anomaly /\ last.zscore = None =>
              last.ret = SamplingDecision("normal", "Sem estatistica suficiente.")
        /\ ~last.is_anomaly /\ last.zscore # None =>
              last.ret.level =
                  IF FLt(FAbs(last.zscore), FromInt(2)) THEN "normal"
                  ELSE "atencao"

C9_Witness ==
    /\ last.op = "decide"
    /\ ~last.is_anomaly
    /\ last.zscore = FromInt(-2)
    /\ last.ret.level = "atencao"

(***************************************************************************)
(* compute_cp_cpk, call by call                                            *)
(***************************************************************************)
\* Samples of up to MaxLen values.
MaxLen == 3

Tenth == FDiv(FromInt(1), FromInt(10))

CapValues == {FromInt(5), FromInt(1027), FromInt(1028), FromInt(1029), Tenth}

CapLimits == {<<FromInt(0), FromInt(10)>>, <<FromInt(1025), FromInt(1032)>>}

Samples == UNION {[1..n -> CapValues] : n \in 0..MaxLen}

\* compute_cp_cpk keeps no state: a call returns the same whatever was called
\* before it, so a behaviour makes one call.
call_compute_cp_cpk(values, lim) ==
    /\ last.op = "__init__"
    /\ last' = [op |-> "compute_cp_cpk", values |-> values,
                ret |-> compute_cp_cpk(values, lim[1], lim[2])]
    /\ UNCHANGED <<app, det, fits, twin>>

CapNext == \E values \in Samples, lim \in CapLimits : call_compute_cp_cpk(values, lim)

CapSpec == Init /\ [][CapNext]_vars

IsConstant(values) == \A i \in 1..Len(values) : values[i] = values[1]

\* C10: compute_cp_cpk returns cp = cpk = null exactly when the std it
\* returns is 0; for n = 0 it returns mean = std = range = 0 and n = 0; for
\* n = 1 it returns std = 0 and range = 0; for every constant sequence cp
\* and cpk are null, and for every other input both are non-null.
C10_NullExactlyWhenConstant ==
    last.op = "compute_cp_cpk" =>
        /\ (last.ret.cp = None /\ last.ret.cpk = None) <=> last.ret.std = Zero
        /\ last.ret.cp = None <=> last.ret.cpk = None
        /\ last.ret.n = Len(last.values)
        /\ last.ret.n = 0 =>
              last.ret.mean = Zero /\ last.ret.std = Zero /\ last.ret.r = Zero
        /\ last.ret.n = 1 => last.ret.std = Zero /\ last.ret.r = Zero
        /\ last.ret.cp = None <=> IsConstant(last.values)

C11Sample == <<FromInt(1027), FromInt(1028), FromInt(1029)>>

\* The call was compute_cp_cpk(C11Sample, 1025, 1032).
C11Called ==
    /\ last.op = "compute_cp_cpk"
    /\ last.values = C11Sample
    /\ last.ret.lsl = FromInt(1025)
    /\ last.ret.usl = FromInt(1032)

\* C11: for n >= 2 values with a non-zero sample std, compute_cp_cpk
\* returns range = max - min, cp = (usl - lsl) / (6 * std) and
\* cpk = min((usl - mean) / (3 * std), (mean - lsl) / (3 * std)); for
\* [1027, 1028, 1029] with lsl = 1025 and usl = 1032 it returns mean = 1028,
\* n = 3, std = 1, range = 2, cp = 7/6 and cpk = 1.
C11_CapabilityFormulas ==
    /\ last.op = "compute_cp_cpk" /\ last.ret.n >= 2 /\ last.ret.std # Zero =>
          /\ last.ret.r = FSub(np_max(last.values), np_min(last.values))
          /\ last.ret.cp = FDiv(FSub(last.ret.usl, last.ret.lsl),
                                FMul(FromInt(6), last.ret.std))
          /\ \E cpu \in {FDiv(FSub(last.ret.usl, last.ret.mean),
                              FMul(FromInt(3), last.ret.std))} :
             \E cpl \in {FDiv(FSub(last.ret.mean, last.ret.lsl),
                              FMul(FromInt(3), last.ret.std))} :
                /\ last.ret.cpk \in {cpu, cpl}
                /\ ~FLt(cpu, last.ret.cpk)
                /\ ~FLt(cpl, last.ret.cpk)
    /\ C11Called =>
          /\ last.ret.mean = FromInt(1028)
          /\ last.ret.n = 3
          /\ last.ret.std = One
          /\ last.ret.r = FromInt(2)
          /\ last.ret.cp = FDiv(FromInt(7), FromInt(6))
          /\ last.ret.cpk = One

C11_Witness == C11Called /\ last.ret.cp # None

(***************************************************************************)
(* compute_daily_cep, call by call                                         *)
(***************************************************************************)
\* Input lists of up to MaxRows rows.
MaxRows == 3

Dates == {<<2023, 12, 31>>, <<2024, 1, 9>>, <<2024, 1, 10>>}

Datetime(d, h) == [type |-> "datetime", date |-> d, hour |-> h]

Timestamps ==
    {None, [type |-> "int"], Datetime(<<2024, 1, 9>>, 0),
     Datetime(<<2024, 1, 9>>, 23), Datetime(<<2024, 1, 10>>, 0),
     Datetime(<<2023, 12, 31>>, 12)}

Rows == [timestamp : Timestamps, value_real : {None, FromInt(1028)}]

RowLists == UNION {[1..n -> Rows] : n \in 0..MaxRows}

\* compute_daily_cep keeps no state: a behaviour makes one call.
call_compute_daily_cep(rows) ==
    /\ last.op = "__init__"
    /\ last' = [op |-> "compute_daily_cep", measurements |-> rows,
                ret |-> compute_daily_cep(rows, LSL, USL)]
    /\ UNCHANGED <<app, det, fits, twin>>

DailyNext == \E rows \in RowLists : call_compute_daily_cep(rows)

DailySpec == Init /\ [][DailyNext]_vars

HasDate(m) == m.timestamp # None /\ m.timestamp.type = "datetime"

\* d1 is a day before d2
DateLt(d1, d2) ==
    \/ d1[1] < d2[1]
    \/ d1[1] = d2[1] /\ d1[2] < d2[2]
    \/ d1[1] = d2[1] /\ d1[2] = d2[2] /\ d1[3] < d2[3]

\* The rows of ms among which the days are counted, and the date of each.
OnDate(ms, rows, d) == {i \in rows : ms[i].timestamp.date = d}

\* ret holds one record per date of the rows, the earlier date first, each
\* with the number of the rows on its date as n.
DailyOver(ms, ret, rows) ==
    /\ Len(ret) = Cardinality({ms[i].timestamp.date : i \in rows})
    /\ \A k \in 1..Len(ret) :
          \E d \in {ms[i].timestamp.date : i \in rows} :
              /\ ret[k].day = isoformat(d)
              /\ ret[k].n = Cardinality(OnDate(ms, rows, d))
              /\ \A j \in 1..(k - 1) :
                    \E c \in Dates : ret[j].day = isoformat(c) /\ DateLt(c, d)

RECURSIVE SumN(_)
SumN(ret) == IF Len(ret) = 0 THEN 0 ELSE ret[1].n + SumN(Tail(ret))

Dated(ms) == {i \in 1..Len(ms) : HasDate(ms[i])}

DatedWithValue(ms) == {i \in Dated(ms) : ms[i].value_real # None}

MaxValues == 11

MaxTurns == 2

ClusterSize == 17

RunValues == {Zero, One, FromInt(-8)}

\* <<values, number of changes>> for the inputs of n values
RECURSIVE Turning(_)
Turning(n) ==
    IF n = 0 THEN {<<<<>>, 0>>}
    ELSE {p \in {<<Append(q[1], v),
                   IF n > 1 /\ q[1][n - 1] # v THEN q[2] + 1 ELSE q[2]>> :
                 q \in Turning(n - 1), v \in RunValues} : p[2] <= MaxTurns}

Cluster == [i \in 1..(ClusterSize + 1) |-> IF i <= ClusterSize THEN Zero ELSE One]

Broken ==
    [i \in 1..10 |-> IF i = 5 THEN Zero ELSE IF i = 10 THEN FromInt(-8) ELSE One]

\* Ten readings of 0.3.
Steady == [i \in 1..10 |-> FDiv(FromInt(3), FromInt(10))]

RunInputs ==
    {p[1] : p \in UNION {Turning(n) : n \in 0..MaxValues}}
        \cup {Cluster, Broken, Steady}

\* detect_run_rules keeps no state: a behaviour makes one call.
call_detect_run_rules(values) ==
    /\ last' = [op |-> "detect_run_rules", values |-> values,
                ret |-> detect_run_rules(values)]
    /\ UNCHANGED <<app, det, fits, twin>>

RunNext ==
    /\ last.op = "__init__"
    /\ \E values \in RunInputs : call_detect_run_rules(values)

RunSpec == Init /\ [][RunNext]_vars

\* The sample standard deviation of the values (0 for fewer than two).
SampleStd(values) == IF Len(values) > 1 THEN np_std(values) ELSE Zero

\* The last call was detect_run_rules on at least 8 values with std > 0.
RulesApplied ==
    /\ last.op = "detect_run_rules"
    /\ Len(last.values) >= 8
    /\ FLt(Zero, SampleStd(last.values))

IsAscending(idx) == \A k \in 1..(Len(idx) - 1) : idx[k] < idx[k + 1]

Members(idx) == {idx[k] : k \in 1..Len(idx)}

Beyond(values, mean, limit) ==
    {i \in 0..(Len(values) - 1) :
        FLt(limit, FAbs(FSub(values[i + 1], mean)))}

\* C14: for at least 8 values with std > 0, rule1 holds the index i exactly
\* when |value[i] - mean| > 3 * std, strictly, with the mean and the sample
\* std of the entire sequence; so a single point 4 std or more away from the
\* mean, off a cluster of equal values, is in rule1.
C14_Rule1IsBeyondThreeSigma ==
    RulesApplied =>
        /\ IsAscending(last.ret.rule1)
        /\ Members(last.ret.rule1) =
              Beyond(last.values, np_mean(last.values),
                     FMul(FromInt(3), SampleStd(last.values)))

C14_Witness ==
    /\ last.op = "detect_run_rules"
    /\ last.values = Cluster
    /\ ~FLt(FAbs(FSub(One, np_mean(Cluster))),
            FMul(FromInt(4), SampleStd(Cluster)))
    /\ last.ret.rule1 = <<ClusterSize>>

\* The side of the mean on which each value lies: -1, 0 or 1.
Sides(values, mean) ==
    [i \in 1..Len(values) |-> Sgn(FSub(values[i], mean)[1])] \o <<>>

\* The index i lies in a run of at least 8 consecutive values that are all
\* strictly above or all strictly below the mean.
InRun(side, i) ==
    /\ side[i + 1] # 0
    /\ \E a \in 0..i : \E b \in i..(Len(side) - 1) :
          /\ b - a + 1 >= 8
          /\ \A j \in a..b : side[j + 1] = side[i + 1]

RunsOf(side) == {i \in 0..(Len(side) - 1) : InRun(side, i)}

\* C15: for at least 8 values with std > 0, rule4 is the ascending list,
\* without duplicates, of the indices that lie in a run of at least 8
\* consecutive values all strictly above or all strictly below the mean; a
\* value equal to the mean or a change of side ends a run.
C15_Rule4IsRunsOfEight ==
    RulesApplied =>
        /\ IsAscending(last.ret.rule4)
        /\ Members(last.ret.rule4) =
              RunsOf(Sides(last.values, np_mean(last.values)))

\* A value equal to the mean at index 0, then a run of 8 above the mean.
C15_Witness ==
    /\ RulesApplied
    /\ last.values[1] = Zero
    /\ np_mean(last.values) = Zero
    /\ last.ret.rule4 = <<1, 2, 3, 4, 5, 6, 7, 8>>

(***************************************************************************)
(* A predictor driven directly: __init__, reset, update and predict, call  *)
(* by call                                                                 *)
(***************************************************************************)
\* Updates of a predictor since its construction or its last reset, at most.
MaxUpdates == 4

\* The alpha of EmaConfig: the 0.3 of main.py, and 1.
Alphas == {alpha, One}

call_init(a) ==
    /\ twin' = NewTwin(EmaConfig(a))
    /\ last' = [op |-> "__init__"]
    /\ UNCHANGED <<app, det, fits>>

call_reset ==
    /\ twin' = reset(twin)
    /\ last' = [op |-> "reset"]
    /\ UNCHANGED <<app, det, fits>>

call_update(v) ==
    /\ Len(twin.history) < MaxUpdates
    /\ twin' = update(twin, v)
    /\ last' = [op |-> "update", value |-> v, before |-> predict(twin)]
    /\ UNCHANGED <<app, det, fits>>

\* predict() assigns nothing: the predictor stays as it is.
call_predict ==
    /\ last' = [op |-> "predict", ret |-> predict(twin)]
    /\ UNCHANGED <<app, det, fits, twin>>

TwinNext ==
    \/ \E a \in Alphas : call_init(a)
    \/ call_reset
    \/ \E v \in Values : call_update(v)
    \/ call_predict

TwinSpec == Init /\ [][TwinNext]_vars

\* C16: predict() leaves the predictor as it is and returns None exactly
\* when there was no update since the construction or the last reset; after
\* exactly one update(v) since then predict() is v, and each later
\* update(value) replaces the estimate e by alpha * value + (1 - alpha) * e;
\* with alpha = 1 predict() is the last value.
C16_EstimateIsEma ==
    /\ predict(twin) = None <=> Len(twin.history) = 0
    /\ last.op = "predict" => last.ret = predict(twin)
    /\ Len(twin.history) = 1 => predict(twin) = twin.history[1]
    /\ last.op = "update" /\ last.before # None =>
          predict(twin) =
              FAdd(FMul(twin.config.alpha, last.value),
                   FMul(FSub(One, twin.config.alpha), last.before))
    /\ last.op = "update" /\ twin.config.alpha = One =>
          predict(twin) = last.value

\* A third update with alpha = 0.3 that moves the estimate.
C16_Witness ==
    /\ last.op = "update"
    /\ Len(twin.history) = 3
    /\ twin.config.alpha = alpha
    /\ last.before # None
    /\ predict(twin) # last.before
    /\ predict(twin) # last.value

(***************************************************************************)
(* The pipeline, one request at a time                                     *)
(***************************************************************************)
Twelve == FSub(FromInt(1040), FromInt(1028))

\* C1: when the measurements are processed one at a time, the value_pred of
\* the k-th record (k >= 2) is the estimate of a predictor to which exactly
\* the measurements 1..k-1 have been applied, in arrival order; the records
\* are in arrival order, and each value is applied by update() exactly once.
C1_ValuePredIsPriorEstimate ==
    /\ \A k \in 1..Len(measurements) : measurements[k].value_real = stream[k]
    /\ \A k \in 2..Len(measurements) :
          measurements[k].value_pred =
              predict(fit_from_series(DigitalTwinModel, SubSeq(stream, 1, k - 1)))
    /\ AllIdle => twins[digital_twin].history = stream

C1_Witness ==
    /\ Len(measurements) >= 3
    /\ measurements[3].value_pred # measurements[2].value_pred
    /\ measurements[3].value_pred # stream[2]

\* C2 as claimed: value_pred is null for the first measurement of a predictor
\* that has no estimate yet, and non-null for every later one.
C2_NullOnlyForFirst ==
    \A k \in 1..Len(measurements) :
        (measurements[k].value_pred = None) <=> (seen[k][2] = 0)

\* C2 as amended: value_pred is never null; for the first measurement of a
\* predictor that has no estimate yet it is the measured value itself (and
\* the residual is 0).
C2_ValuePredNeverNull ==
    \A k \in 1..Len(measurements) :
        /\ measurements[k].value_pred # None
        /\ seen[k][2] = 0 =>
              /\ measurements[k].value_pred = measurements[k].value_real
              /\ measurements[k].residual = Zero

C2_Witness ==
    /\ Len(measurements) >= 2
    /\ seen[1][2] = 0
    /\ seen[2][2] = 1

C3Seq == [i \in 1..9 |-> IF i <= 8 THEN FromInt(1028) ELSE FromInt(1040)]

\* The first k requests were the first k values of C3Seq.
C3Fed(k) == k <= 9 /\ SubSeq(stream, 1, k) = SubSeq(C3Seq, 1, k)

C3Quiet(m) == m.residual = Zero /\ m.zscore_residual = Zero

\* C3 as claimed: of the sequence 1028 (8 times), 1040 the first 8 records
\* have residual 0 and zscore 0, and the 9th has the residual 12, a non-zero
\* zscore, is_anomaly = true and the sampling level critical.
C3_NinthIsCritical ==
    \A k \in 1..Len(measurements) :
        C3Fed(k) =>
            /\ k <= 8 => C3Quiet(measurements[k])
            /\ k = 9 => /\ measurements[k].residual = Twelve
                        /\ measurements[k].zscore_residual # Zero
                        /\ measurements[k].is_anomaly
                        /\ measurements[k].sampling_level = "critico"

\* C3 as amended: the 9th record has the residual 12 and a non-zero zscore
\* below 2, so is_anomaly = false and the sampling level is normal.
C3_NinthIsNormal ==
    \A k \in 1..Len(measurements) :
        C3Fed(k) =>
            /\ k <= 8 => /\ C3Quiet(measurements[k])
                         /\ ~measurements[k].is_anomaly
                         /\ measurements[k].sampling_level = "normal"
            /\ k = 9 => /\ measurements[k].residual = Twelve
                        /\ measurements[k].zscore_residual # Zero
                        /\ FLt(FAbs(measurements[k].zscore_residual), FromInt(2))
                        /\ ~measurements[k].is_anomaly
                        /\ measurements[k].sampling_level = "normal"

C3_Witness == Len(measurements) = 9 /\ stream = C3Seq

\* C8: of a stream in which every value is the same, processed from a fresh
\* predictor and detector, every record after the first has residual 0 and
\* every record has zscore_residual 0.
C8_ConstantStreamIsQuiet ==
    \A k \in 1..Len(measurements) :
        IsConstant(SubSeq(stream, 1, k)) =>
            /\ k > 1 => measurements[k].residual = Zero
            /\ measurements[k].zscore_residual = Zero

\* The residuals of the first k records.
Residuals(k) == [i \in 1..k |-> measurements[i].residual]

\* C17: the zscore of the k-th record is taken with the mean and the sample
\* standard deviation of exactly the k residuals observed so far, the k-th
\* counted once.
C17_ZscoreOverObserved ==
    \A k \in 1..Len(measurements) :
        measurements[k].zscore_residual =
            hist_zscore(measurements[k].residual, Residuals(k) \o <<>>)

\* C4: no two records are computed from the same state of a predictor (the
\* same object after the same number of updates), as it would be if the
\* predict .. update sequences of concurrent requests never interleaved.
C4_NoSharedPredictorState ==
    \A i, j \in 1..Len(seen) : i # j => seen[i] # seen[j]

\* The residuals of the first n records of the import.
BatchResiduals(n) == [i \in 1..n |-> measurements[upload.from + i].residual]

\* The record of the row the import has just committed, against the pipeline
\* started afresh and fed the rows of the file up to that one.
RowIsOfBatchAlone(rows, n, m, res, tw, d) ==
    /\ Len(measurements) = upload.from + n
    /\ \A i \in 1..n :
          /\ measurements[upload.from + i].value_real = rows[i]
          /\ measurements[upload.from + i].source = "upload"
    /\ m.value_pred = PredBefore(tw, rows[n])
    /\ m.residual = FSub(rows[n], PredBefore(tw, rows[n]))
    /\ n = 1 => m.residual = Zero
    /\ m.zscore_residual = hist_zscore(m.residual, Append(res, m.residual))
    /\ twins[digital_twin].history = rows
    /\ d.history = res
    /\ d.fitted = (n >= RetrainEvery)
    /\ n >= RetrainEvery =>
          d.model.X = SubSeq(res, 1, (n \div RetrainEvery) * RetrainEvery)
    /\ n < RetrainEvery => m.iforest_score = Zero

IsUpload(m) == m.source = "upload"

UploadRecords == SelectSeq(measurements, IsUpload)

\* Every call has used one predictor and one detector.
OneInstancePerCall ==
    \A k \in 1..Len(used) :
        /\ used[k].predict = used[k].update
        /\ used[k].observe = used[k].score

\* The predictions of the records of the import are those of a predictor
\* that has absorbed the rows of the file before them and nothing else.
BatchUntouched ==
    \A j \in 1..Len(UploadRecords) :
        UploadRecords[j].value_pred =
            PredBefore(fit_from_series(DigitalTwinModel,
                                       SubSeq(upload.rows, 1, j - 1)),
                       upload.rows[j])

\* C20: every _process_value call uses one predictor object for predict()
\* and update() and one detector object for partial_update and score_point,
\* also when an import rebinds the globals during the call, and no record of
\* the import is computed from state written by a simulate-step call.
C20_CallsKeepTheirInstances == OneInstancePerCall /\ BatchUntouched

\* C21: a fresh detector fed residual by residual, each one observed and
\* then scored, reports none of the first 19 residuals as an anomaly.
C21_FirstNineteenAreQuiet ==
    (Returned /\ Len(det.history) <= 19) => ~last.ret.is_anomaly

\* The 19th residual is the only one that differs from the others.
C21_Witness ==
    /\ Returned
    /\ Len(det.history) = 19
    /\ last.residual # Zero
    /\ Outliers(det.history) = 1
    /\ FGt(FAbs(last.ret.zscore_residual), FromInt(2))
    /\ ~last.ret.is_anomaly

\* C22: for an input of 8, 9 or 10 values, detect_run_rules returns an
\* empty rule1.
C22_NoRule1UpToTen ==
    (last.op = "detect_run_rules" /\ Len(last.values) \in 8..10)
        => last.ret.rule1 = <<>>

\* Nine values of 0 and one of -8: the farthest a value of ten can lie.
C22_Witness ==
    /\ RulesApplied
    /\ Len(last.values) = 10
    /\ \A i \in 1..9 : last.values[i] = Zero
    /\ last.values[10] = FromInt(-8)
    /\ last.ret.rule1 = <<>>

\* C23: rule4 never holds every index of the input, and it is empty for an
\* input of exactly 8 values.
C23_Rule4NeverAll ==
    last.op = "detect_run_rules" =>
        /\ Len(last.values) > 0 => Len(last.ret.rule4) < Len(last.values)
        /\ Len(last.values) = 8 => last.ret.rule4 = <<>>

IsAnomalous(m) == m.is_anomaly

\* The stored measurements flagged as anomalies, in commit order.
Anomalous == SelectSeq(measurements, IsAnomalous)

\* The calls that have committed an anomalous measurement and have not yet
\* written its alert.
AlertPending ==
    {t \in Callers : pc[t] = "alert" /\ loc[t].scores.is_anomaly}

\* C24: with the measurements processed one at a time, every alert follows
\* the commit of an anomalous measurement, in the same order and for its
\* value; once the call has ended there are as many alerts as anomalous
\* measurements, and a measurement that is not anomalous adds none.
C24_AlertsMatchAnomalies ==
    /\ Len(alerts) + Cardinality(AlertPending) = Len(Anomalous)
    /\ \A j \in 1..Len(alerts) : alerts[j].value = Anomalous[j].value_real
    /\ NoCaller => Len(alerts) = Len(Anomalous)

C24_Witness ==
    /\ NoCaller
    /\ Len(alerts) > 0
    /\ Len(alerts) = Len(Anomalous)
    /\ Len(measurements) > Len(alerts)

====
